---- MODULE Spec2Model ----
(***************************************************************************)
(* Block-mode pipeline of gozstd: main -> compressFileBlock ->             *)
(* calculateSegment / divideFileIntoSegments -> one compressPart goroutine *)
(* per segment -> concatenateFiles.  Offsets are counted in bytes; the     *)
(* 1 MiB granularity of the program is scaled down to Granularity bytes so *)
(* that whole file contents can be enumerated.                             *)
(***************************************************************************)
EXTENDS Integers, Sequences, FiniteSets, TLC

\* ---------------------------------------------------------------- bounds
Granularity == 2
MaxFileSize == 5
MaxThreads == 3
MaxFaults == 1
MaxCfThreads == 2
MaxMemThreads == 2
PlanMaxSize == 12
PlanMaxThreads == 5

\* flag.Int("l", 3, "Compression level (1-19, default: 3)")
MinLevel == 1
MaxLevel == 19
DefaultLevel == 3

\* const oneMB = 1 << 20, scaled to Granularity bytes
oneMB == Granularity

Min(a, b) == IF a < b THEN a ELSE b

\* The program never branches on the bytes it copies: one content per length is
\* drawn, with pairwise distinct bytes, so that any loss, repetition or reordering
\* of bytes shows in the result.
FileContents == {[k \in 1..n |-> k] : n \in 0..MaxFileSize}

\* ------------------------------------------------------------ the planner
\* if end > fileSize { end = fileSize }
clampEndNoClamp(end, fileSize) == end
clampEnd(end, fileSize) == IF end > fileSize THEN fileSize ELSE end

\* if remainingMB > 0 { end += oneMB; remainingMB-- }: the end after the extra unit
extraUnitNever(end, remainingMB) == end
extraUnitOneByte(end, remainingMB) == IF remainingMB > 0 THEN end + 1 ELSE end
extraUnit(end, remainingMB) == IF remainingMB > 0 THEN end + oneMB ELSE end

\* the for loop of divideFileIntoSegments; remainingMB is decremented in place
RECURSIVE divideLoop(_, _, _, _, _, _, _)
divideLoop(fileSize, threadCount, segmentSizeMB, remainingMB, start, i, segments) ==
    IF i >= threadCount THEN segments
    ELSE LET end0 == start + segmentSizeMB * oneMB
             end1 == extraUnit(end0, remainingMB)
             rem1 == IF remainingMB > 0 THEN remainingMB - 1 ELSE remainingMB
             end  == clampEnd(end1, fileSize)
         IN divideLoop(fileSize, threadCount, segmentSizeMB, rem1, end, i + 1,
                       Append(segments, <<start, end>>))

\* a plan of equal byte shares that ignores the granularity
divideEvenly(fileSize, threadCount) ==
    [k \in 1..threadCount |->
        <<(k - 1) * (fileSize \div threadCount),
          IF k = threadCount THEN fileSize ELSE k * (fileSize \div threadCount)>>]

divideFileIntoSegments(fileSize, threadCount) ==
    LET fileSizeMB    == (fileSize + oneMB - 1) \div oneMB
        segmentSizeMB == fileSizeMB \div threadCount
        remainingMB   == fileSizeMB % threadCount
    IN divideLoop(fileSize, threadCount, segmentSizeMB, remainingMB, 0, 0, <<>>)

\* ------------------------------------------------------- names of files
Digits == <<"0", "1", "2", "3", "4", "5", "6", "7", "8", "9">>

\* the %d verb of fmt.Sprintf, for a non-negative index
RECURSIVE Itoa(_)
Itoa(n) ==
    IF n < 10 THEN <<Digits[n + 1]>>
    ELSE Itoa(n \div 10) \o <<Digits[(n % 10) + 1]>>

IsDigit(c) == \E d \in 1..10 : Digits[d] = c
DigitVal(c) == (CHOOSE d \in 1..10 : Digits[d] = c) - 1

\* the value standing for "strconv.Atoi returned an error"
AtoiErr == -1

RECURSIVE AtoiAcc(_, _)
AtoiAcc(s, acc) ==
    IF s = <<>> THEN acc
    ELSE IF ~IsDigit(Head(s)) THEN AtoiErr
    ELSE AtoiAcc(Tail(s), acc * 10 + DigitVal(Head(s)))

Atoi(s) == IF s = <<>> THEN AtoiErr ELSE AtoiAcc(s, 0)

\* filepath.Base: the part after the last separator; "." for the empty path
Base(path) ==
    IF path = <<>> THEN <<".">>
    ELSE LET slashes == {k \in 1..Len(path) : path[k] = "/"}
             last == IF slashes = {} THEN 0
                     ELSE CHOOSE k \in slashes : \A j \in slashes : j <= k
         IN SubSeq(path, last + 1, Len(path))

\* strings.SplitN(base, "-", 2): cut at the first "-" only
SplitN2(s) ==
    LET dashes == {k \in 1..Len(s) : s[k] = "-"}
    IN IF dashes = {} THEN <<s>>
       ELSE LET k == CHOOSE d \in dashes : \A j \in dashes : d <= j
            IN <<SubSeq(s, 1, k - 1), SubSeq(s, k + 1, Len(s))>>

\* the paths given on the command line: flag.Arg(0) and -o
inputFile == <<"d", "/", "7", "-", "x">>
outputFile == <<"x", ".", "zst">>

\* fmt.Sprintf("%d-%s-output-segment.part%d", segmentIndex, filepath.Base(inputFile), segmentIndex)
SegmentName(segmentIndex) ==
    Itoa(segmentIndex) \o <<"-">> \o Base(inputFile)
        \o <<"-", "output", "-", "segment", ".", "part">> \o Itoa(segmentIndex)

\* --------------------------------------------------------------- the codec
\* encoder.EncodeAll(buf[:n], nil): one self-delimiting frame per chunk
EncodeAll(chunk) == <<Len(chunk)>> \o chunk

\* zstd.EncoderLevelFromZstd(compressionLevel): every integer is mapped to one of
\* the four speeds of the encoder, none is refused
EncoderLevelFromZstd(level) ==
    IF level < 3 THEN "SpeedFastest"
    ELSE IF level < 6 THEN "SpeedDefault"
    ELSE IF level < 10 THEN "SpeedBetterCompression"
    ELSE "SpeedBestCompression"

\* the decoder over one continuous stream of frames
RECURSIVE DecodeAcc(_, _)
DecodeAcc(stream, acc) ==
    IF stream = <<>> THEN [ok |-> TRUE, data |-> acc]
    ELSE LET n == Head(stream)
         IN IF Len(stream) < n + 1 THEN [ok |-> FALSE, data |-> acc]
            ELSE DecodeAcc(SubSeq(stream, n + 2, Len(stream)),
                           acc \o SubSeq(stream, 2, n + 1))

decompressFile(stream) == DecodeAcc(stream, <<>>)

\* ----------------------------------------------------------- reassembly
\* the index read back from a segment file name; AtoiErr when the name is malformed
ParseIndex(filename) ==
    LET parts == SplitN2(Base(filename))
    IN IF Len(parts) < 2 THEN AtoiErr ELSE Atoi(parts[1])

RECURSIVE InsertByIndex(_, _)
InsertByIndex(sorted, f) ==
    IF sorted = <<>> THEN <<f>>
    ELSE IF f.Index < Head(sorted).Index THEN <<f>> \o sorted
    ELSE <<Head(sorted)>> \o InsertByIndex(Tail(sorted), f)

RECURSIVE SortAcc(_, _)
SortAcc(s, acc) ==
    IF s = <<>> THEN acc ELSE SortAcc(Tail(s), InsertByIndex(acc, Head(s)))

\* sort.Slice(filesWithIndex, Index ascending)
sortFilesUnsorted(files) == files
sortFiles(files) == SortAcc(files, <<>>)

\* the first loop of concatenateFiles
withIndex(filenames) ==
    [k \in 1..Len(filenames) |->
        [Index |-> ParseIndex(filenames[k]), Name |-> filenames[k]]]

Put(f, k, v) == [x \in (DOMAIN f) \cup {k} |-> IF x = k THEN v ELSE f[x]]
DelNothing(f, S) == f
Del(f, S) == [x \in (DOMAIN f) \ S |-> f[x]]

\* ------------------------------------------------------------------ state
VARIABLES
    cf,              \* the chunk-dispatch compressFile: its goroutines, channels and buffer
    mem,             \* the in-memory compressFileBlock: its goroutines, pipes and errChan
    X,               \* the content of the source file when the run starts
    flags,           \* the command line: NArg (0 or 1 arguments), o (-o given), l (-l)
    src,             \* the content of the source file now
    numThreads,      \* -T
    shortReads,      \* whether input.Read may return fewer bytes than it could
    changed,         \* the source file was changed during the run
    faults,          \* disturbances so far: injected I/O failures and truncations
    pc,              \* where main / compressFileBlock / concatenateFiles stands
    offset,          \* the segments returned by calculateSegment
    spawned,         \* the loop variable i of the dispatch loop
    wg,              \* the sync.WaitGroup counter
    w,               \* the compressPart goroutines, by segment index
    outputFileName,  \* chan string, buffered numThreads
    errChan,         \* chan error, buffered numThreads
    closed,          \* both channels were closed after wg.Wait
    outputFiles,     \* the names collected from outputFileName
    fs,              \* the files this run created: name -> content
    filesWithIndex,  \* concatenateFiles: the sorted files
    ck,              \* concatenateFiles: position of the copy loop
    concatErr,       \* what concatenateFiles returned ("nil", an error, or "none" before)
    outcome          \* how compressFileBlock / main ended

vars == <<cf, mem, X, flags, src, numThreads, shortReads, changed, faults, pc, offset, spawned, wg, w,
          outputFileName, errChan, closed, outputFiles, fs, filesWithIndex, ck,
          concatErr, outcome>>

\* the value standing for "no segment index is attached"
NoIndex == -1

Workers == 0..(numThreads - 1)
Running == outcome.kind = "running"
Ended(kind, err) == [kind |-> kind, index |-> NoIndex, err |-> err]

idleWorker == [pc |-> "idle", pos |-> 0, out |-> <<>>, file |-> <<>>, err |-> "nil", runs |-> 0,
               level |-> "none"]

\* the other two programs are not running
cfOff == [pc |-> "off"]
memOff == [pc |-> "off"]

\* -b -o x.zst -l 3 d/7-x
validFlags == [NArg |-> 1, o |-> TRUE, l |-> DefaultLevel]

Init ==
    /\ cf = cfOff
    /\ mem = memOff
    /\ X \in FileContents
    /\ flags = validFlags
    /\ src = X
    /\ numThreads \in 1..MaxThreads
    /\ shortReads \in BOOLEAN
    /\ changed = FALSE
    /\ faults = 0
    /\ pc = "main"
    /\ offset = <<>>
    /\ spawned = 0
    /\ wg = 0
    /\ w = [i \in 0..(MaxThreads - 1) |-> idleWorker]
    /\ outputFileName = <<>>
    /\ errChan = <<>>
    /\ closed = FALSE
    /\ outputFiles = <<>>
    /\ fs = [n \in {} |-> <<>>]
    /\ filesWithIndex = <<>>
    /\ ck = 0
    /\ concatErr = "none"
    /\ outcome = Ended("running", "nil")

\* ------------------------------------------------------------- environment
\* the source file is truncated by somebody else after os.Stat measured it and
\* before the workers read it
Shrink ==
    /\ Running
    /\ faults < MaxFaults
    /\ faults' = faults + 1
    /\ pc = "dispatch"
    /\ spawned = 0
    /\ \E n \in 0..(Len(src) - 1) : src' = SubSeq(src, 1, n)
    /\ changed' = TRUE
    /\ UNCHANGED <<cf, mem, X, flags, numThreads, shortReads, pc, offset, spawned, wg, w,
                   outputFileName, errChan, closed, outputFiles, fs, filesWithIndex,
                   ck, concatErr, outcome>>

\* -------------------------------------------------------------------- main
\* main up to the call of compressFileBlock: os.Open of the argument if there is
\* one, os.Create of the -o file if there is one, then the test of block mode,
\* flag.NArg() < 0 || *outputFile == ""
MainSetup ==
    /\ pc = "main"
    /\ \/ /\ fs' = IF flags.o THEN Put(fs, outputFile, <<>>) ELSE fs
          /\ IF flags.NArg < 0 \/ ~flags.o
             THEN /\ outcome' = Ended("panic", "Block mode does not support non seekable stream")
                  /\ pc' = "done"
             ELSE /\ pc' = "plan"
                  /\ UNCHANGED outcome
          /\ UNCHANGED faults
       \/ /\ flags.NArg > 0 \/ flags.o
          /\ faults < MaxFaults
          /\ faults' = faults + 1
          /\ outcome' = Ended("exit", "Failed to open input file or to create output file")
          /\ pc' = "done"
          /\ UNCHANGED fs
    /\ UNCHANGED <<cf, mem, X, flags, src, numThreads, shortReads, changed, offset, spawned, wg, w,
                   outputFileName, errChan, closed, outputFiles, filesWithIndex, ck,
                   concatErr>>

\* compressFileBlock up to the dispatch loop: calculateSegment (os.Stat of
\* flag.Arg(0), which is "" without an argument, then divideFileIntoSegments)
\* and the two make(chan, numThreads). The division by threadCount = 0 and
\* a negative channel size are run-time panics; with a negative threadCount the
\* loop of divideFileIntoSegments does not run.
calculateSegment ==
    /\ pc = "plan"
    /\ \/ /\ flags.NArg > 0
          /\ IF numThreads = 0
             THEN /\ outcome' = Ended("panic", "runtime error: integer divide by zero")
                  /\ pc' = "done"
                  /\ UNCHANGED offset
             ELSE IF numThreads < 0
             THEN /\ offset' = <<>>
                  /\ outcome' = Ended("panic", "makechan: size out of range")
                  /\ pc' = "done"
             ELSE /\ offset' = divideFileIntoSegments(Len(src), numThreads)
                  /\ pc' = "dispatch"
                  /\ UNCHANGED outcome
          /\ UNCHANGED faults
       \/ /\ flags.NArg = 0 \/ faults < MaxFaults
          /\ faults' = IF flags.NArg = 0 THEN faults ELSE faults + 1
          /\ outcome' = Ended("returned", "stat failed")
          /\ pc' = "done"
          /\ UNCHANGED offset
    /\ UNCHANGED <<cf, mem, X, flags, src, numThreads, shortReads, changed, spawned, wg, w,
                   outputFileName, errChan, closed, outputFiles, fs, filesWithIndex,
                   ck, concatErr>>

\* for i := 0; i < numThreads; i++ { wg.Add(1); go func(i int) {...}(i) }
Spawn ==
    /\ pc = "dispatch"
    /\ Running
    /\ spawned < numThreads
    /\ wg' = wg + 1
    /\ w' = [w EXCEPT ![spawned].pc = "start", ![spawned].runs = @ + 1]
    /\ spawned' = spawned + 1
    /\ UNCHANGED <<cf, mem, X, flags, src, numThreads, shortReads, changed, faults, pc, offset,
                   outputFileName, errChan, closed, outputFiles, fs, filesWithIndex,
                   ck, concatErr, outcome>>

\* the loop is over: go func() { wg.Wait(); close; close }() and start collecting
StartCollect ==
    /\ pc = "dispatch"
    /\ Running
    /\ spawned >= numThreads
    /\ pc' = "collect"
    /\ UNCHANGED <<cf, mem, X, flags, src, numThreads, shortReads, changed, faults, offset, spawned, wg,
                   w, outputFileName, errChan, closed, outputFiles, fs, filesWithIndex,
                   ck, concatErr, outcome>>

\* ------------------------------------------------------------ compressPart
\* n of input.Read(buf) at position pos: 0 at end of file, else up to len(buf)
ReadLens(pos) ==
    LET avail == Len(src) - pos
    IN IF avail <= 0 THEN {0}
       ELSE IF shortReads THEN 1..Min(oneMB, avail)
       ELSE {Min(oneMB, avail)}

\* the two tests on currentOffset that end an iteration
loopExitAfterFirstRead(currentOffset, endOffset) == "break"
loopExit(currentOffset, endOffset) ==
    IF currentOffset = endOffset THEN "break"
    ELSE IF currentOffset > endOffset THEN "panic"
    ELSE "continue"

\* make(chan string, numThreads), make(chan error, numThreads): the buffer size
chanCapHalf == numThreads \div 2
chanCap == numThreads

\* a send on a buffered channel
sendTwice(ch, v) == Append(Append(ch, v), v)
send(ch, v) == Append(ch, v)

\* input, err := os.Open(inputFile): the handle whose read position worker i moves
handleShared(i) == 0
handleOf(i) == i

\* os.Open, os.Create, zstd.NewWriter, input.Seek(startOffset, 0); os.Open and
\* os.Create fail alike (no file is created, the error is returned); the level
\* option never makes zstd.NewWriter fail
WorkerStart(i) ==
    /\ Running
    /\ w[i].pc = "start"
    /\ \/ /\ fs' = Put(fs, SegmentName(i), <<>>)
          /\ w' = [w EXCEPT ![i].pc = "loop", ![i].file = SegmentName(i),
                            ![i].level = EncoderLevelFromZstd(flags.l),
                            ![handleOf(i)].pos = offset[i + 1][1]]
          /\ UNCHANGED faults
       \/ /\ faults < MaxFaults
          /\ faults' = faults + 1
          /\ w' = [w EXCEPT ![i].pc = "send", ![i].file = <<>>,
                            ![i].err = "failed to create openfile or output file"]
          /\ UNCHANGED fs
    /\ UNCHANGED <<cf, mem, X, flags, src, numThreads, shortReads, changed, pc, offset, spawned, wg,
                   outputFileName, errChan, closed, outputFiles, filesWithIndex, ck,
                   concatErr, outcome>>

\* one iteration of the for loop: Read, EncodeAll, Write, Seek(0, io.SeekCurrent), tests;
\* a failed Read, Write or Seek returns "" and the error, the file stays on disk
WorkerRead(i) ==
    /\ Running
    /\ w[i].pc = "loop"
    /\ \/ /\ \E n \in ReadLens(w[handleOf(i)].pos) :
                LET chunk == SubSeq(src, w[handleOf(i)].pos + 1, w[handleOf(i)].pos + n)
                    currentOffset == w[handleOf(i)].pos + n
                    exit == loopExit(currentOffset, offset[i + 1][2])
                IN IF n = 0
                   THEN /\ w' = [w EXCEPT ![i].pc = "send"]
                        /\ UNCHANGED <<fs, outcome, pc>>
                   ELSE /\ fs' = [fs EXCEPT ![w[i].file] = @ \o EncodeAll(chunk)]
                        /\ w' = [w EXCEPT ![i].out = @ \o EncodeAll(chunk),
                                          ![i].pc = IF exit = "break" THEN "send"
                                                    ELSE IF exit = "panic" THEN "panicked"
                                                    ELSE "loop",
                                          ![handleOf(i)].pos = currentOffset]
                        /\ outcome' = IF exit = "panic"
                                      THEN Ended("panic", "I read over the endOffset")
                                      ELSE outcome
                        /\ pc' = IF exit = "panic" THEN "done" ELSE pc
          /\ UNCHANGED faults
       \/ /\ faults < MaxFaults
          /\ faults' = faults + 1
          /\ w' = [w EXCEPT ![i].pc = "send", ![i].file = <<>>,
                            ![i].err = "failed to read input or to write output"]
          /\ UNCHANGED <<fs, outcome, pc>>
    /\ UNCHANGED <<cf, mem, X, flags, src, numThreads, shortReads, changed, offset, spawned, wg,
                   outputFileName, errChan, closed, outputFiles, filesWithIndex, ck,
                   concatErr>>

\* the goroutine of the dispatch loop after compressPart returned: the sends, wg.Done;
\* a send on a closed channel is a run-time panic
WorkerSend(i) ==
    /\ Running
    /\ w[i].pc = "send"
    /\ IF closed
       THEN /\ outcome' = Ended("panic", "send on closed channel")
            /\ pc' = "done"
            /\ w' = [w EXCEPT ![i].pc = "sendpanic"]
            /\ UNCHANGED <<errChan, outputFileName, wg>>
       ELSE /\ IF w[i].err # "nil"
               THEN /\ Len(errChan) < chanCap
                    /\ Len(outputFileName) < chanCap
                    /\ errChan' = send(errChan, w[i].err)
                    /\ outputFileName' = send(outputFileName, <<>>)
               ELSE /\ Len(outputFileName) < chanCap
                    /\ outputFileName' = send(outputFileName, w[i].file)
                    /\ UNCHANGED errChan
            /\ wg' = wg - 1
            /\ w' = [w EXCEPT ![i].pc = "done"]
            /\ UNCHANGED <<pc, outcome>>
    /\ UNCHANGED <<cf, mem, X, flags, src, numThreads, shortReads, changed, faults, offset,
                   spawned, closed, outputFiles, fs, filesWithIndex, ck, concatErr>>

\* wg.Wait() returns: every wg.Add(1) was matched by a wg.Done()
wgWaitNoWait == TRUE
wgWait == wg = 0

\* go func() { wg.Wait(); close(outputFileName); close(errChan) }()
Closer ==
    /\ Running
    /\ pc = "collect"
    /\ ~closed
    /\ wgWait
    /\ closed' = TRUE
    /\ UNCHANGED <<cf, mem, X, flags, src, numThreads, shortReads, changed, faults, pc, offset, spawned,
                   wg, w, outputFileName, errChan, outputFiles, fs, filesWithIndex, ck,
                   concatErr, outcome>>

\* ------------------------------------------------- compressFileBlock, collecting
\* for fn := range outputFileName { outputFiles = append(outputFiles, fn) }
CollectRecv ==
    /\ Running
    /\ pc = "collect"
    /\ outputFileName # <<>>
    /\ outputFiles' = Append(outputFiles, Head(outputFileName))
    /\ outputFileName' = Tail(outputFileName)
    /\ UNCHANGED <<cf, mem, X, flags, src, numThreads, shortReads, changed, faults, pc, offset, spawned,
                   wg, w, errChan, closed, fs, filesWithIndex, ck, concatErr, outcome>>

CollectEnd ==
    /\ Running
    /\ pc = "collect"
    /\ outputFileName = <<>>
    /\ closed
    /\ pc' = "errcheck"
    /\ UNCHANGED <<cf, mem, X, flags, src, numThreads, shortReads, changed, faults, offset, spawned, wg,
                   w, outputFileName, errChan, closed, outputFiles, fs, filesWithIndex,
                   ck, concatErr, outcome>>

\* for err := range errChan { print; panic("[ERROR] some errors see above") }
ErrCheck ==
    /\ Running
    /\ pc = "errcheck"
    /\ IF errChan # <<>>
       THEN /\ outcome' = Ended("panic", "[ERROR] some errors see above")
            /\ errChan' = Tail(errChan)
            /\ pc' = "done"
       ELSE /\ closed
            /\ pc' = "concat"
            /\ UNCHANGED <<outcome, errChan>>
    /\ UNCHANGED <<cf, mem, X, flags, src, numThreads, shortReads, changed, faults, offset, spawned, wg,
                   w, outputFileName, closed, outputFiles, fs, filesWithIndex, ck,
                   concatErr>>

\* -------------------------------------------------------- concatenateFiles
\* parse the index out of every name, then sort by it
ConcatParse ==
    /\ Running
    /\ pc = "concat"
    /\ LET files == withIndex(outputFiles)
       IN IF \E k \in 1..Len(files) : files[k].Index = AtoiErr
          THEN /\ concatErr' = "invalid filename"
               /\ pc' = "return"
               /\ UNCHANGED filesWithIndex
          ELSE /\ filesWithIndex' = sortFiles(files)
               /\ pc' = "create"
               /\ UNCHANGED concatErr
    /\ UNCHANGED <<cf, mem, X, flags, src, numThreads, shortReads, changed, faults, offset, spawned, wg,
                   w, outputFileName, errChan, closed, outputFiles, fs, ck, outcome>>

\* out, err := os.Create(outputFile)
ConcatCreate ==
    /\ Running
    /\ pc = "create"
    /\ \/ /\ fs' = Put(fs, outputFile, <<>>)
          /\ ck' = 1
          /\ pc' = "copy"
          /\ UNCHANGED <<faults, concatErr>>
       \/ /\ faults < MaxFaults
          /\ faults' = faults + 1
          /\ concatErr' = "failed to create output file"
          /\ pc' = "return"
          /\ UNCHANGED <<fs, ck>>
    /\ UNCHANGED <<cf, mem, X, flags, src, numThreads, shortReads, changed, offset, spawned, wg, w,
                   outputFileName, errChan, closed, outputFiles, filesWithIndex, outcome>>

\* one iteration of the copy loop: os.Open(file.Name), io.Copy(out, in)
ConcatCopy ==
    /\ Running
    /\ pc = "copy"
    /\ ck <= Len(filesWithIndex)
    /\ LET name == filesWithIndex[ck].Name
       IN \/ /\ name \in DOMAIN fs
             /\ fs' = [fs EXCEPT ![outputFile] = @ \o fs[name]]
             /\ ck' = ck + 1
             /\ UNCHANGED <<faults, concatErr, pc>>
          \/ /\ name \notin DOMAIN fs
             /\ concatErr' = "failed to open input file"
             /\ pc' = "return"
             /\ UNCHANGED <<faults, fs, ck>>
          \/ /\ name \in DOMAIN fs
             /\ faults < MaxFaults
             /\ faults' = faults + 1
             /\ \E n \in 0..Len(fs[name]) :
                   /\ n < Len(fs[name]) \/ n = 0
                   /\ fs' = [fs EXCEPT ![outputFile] = @ \o SubSeq(fs[name], 1, n)]
             /\ concatErr' = "failed to write to output file"
             /\ pc' = "return"
             /\ UNCHANGED ck
    /\ UNCHANGED <<cf, mem, X, flags, src, numThreads, shortReads, changed, offset, spawned, wg, w,
                   outputFileName, errChan, closed, outputFiles, filesWithIndex, outcome>>

\* for _, file := range filesWithIndex { os.Remove(file.Name) }; return nil
ConcatRemove ==
    /\ Running
    /\ pc = "copy"
    /\ ck > Len(filesWithIndex)
    /\ fs' = Del(fs, {filesWithIndex[k].Name : k \in 1..Len(filesWithIndex)})
    /\ concatErr' = "nil"
    /\ pc' = "return"
    /\ UNCHANGED <<cf, mem, X, flags, src, numThreads, shortReads, changed, faults, offset, spawned, wg,
                   w, outputFileName, errChan, closed, outputFiles, filesWithIndex, ck,
                   outcome>>

\* concatenateFiles(outputFiles, outputFile); return nil
Return ==
    /\ Running
    /\ pc = "return"
    /\ outcome' = Ended("returned", "nil")
    /\ pc' = "done"
    /\ UNCHANGED <<cf, mem, X, flags, src, numThreads, shortReads, changed, faults, offset, spawned, wg,
                   w, outputFileName, errChan, closed, outputFiles, fs, filesWithIndex,
                   ck, concatErr>>

\* ------------------------------------------------------------ specifications
Next ==
    \/ Shrink
    \/ MainSetup
    \/ calculateSegment
    \/ Spawn
    \/ StartCollect
    \/ \E i \in Workers : WorkerStart(i)
    \/ \E i \in Workers : WorkerRead(i)
    \/ \E i \in Workers : WorkerSend(i)
    \/ Closer
    \/ CollectRecv
    \/ CollectEnd
    \/ ErrCheck
    \/ ConcatParse
    \/ ConcatCreate
    \/ ConcatCopy
    \/ ConcatRemove
    \/ Return

Spec == Init /\ [][Next]_vars

\* the planner alone, over a wider range of sizes and thread counts
InitPlan ==
    /\ cf = cfOff
    /\ mem = memOff
    /\ \E n \in 0..PlanMaxSize : X = [k \in 1..n |-> 0]
    /\ flags = validFlags
    /\ src = X
    /\ numThreads \in 1..PlanMaxThreads
    /\ shortReads = FALSE
    /\ changed = FALSE
    /\ faults = 0
    /\ pc = "plan"
    /\ offset = <<>>
    /\ spawned = 0
    /\ wg = 0
    /\ w = [i \in 0..(MaxThreads - 1) |-> idleWorker]
    /\ outputFileName = <<>>
    /\ errChan = <<>>
    /\ closed = FALSE
    /\ outputFiles = <<>>
    /\ fs = [n \in {} |-> <<>>]
    /\ filesWithIndex = <<>>
    /\ ck = 0
    /\ concatErr = "none"
    /\ outcome = Ended("running", "nil")

NextPlan == calculateSegment

SpecPlan == InitPlan /\ [][NextPlan]_vars

\* the command line: with and without the input argument and -o, levels inside
\* and on both sides of 1..19, and -T from -1 to 1
CliFlags == [NArg : {0, 1}, o : BOOLEAN, l : {MinLevel - 1, DefaultLevel, MaxLevel + 1}]

InitCli ==
    /\ cf = cfOff
    /\ mem = memOff
    /\ X \in FileContents
    /\ flags \in CliFlags
    /\ src = X
    /\ numThreads \in (-1)..1
    /\ shortReads = FALSE
    /\ changed = FALSE
    /\ faults = 0
    /\ pc = "main"
    /\ offset = <<>>
    /\ spawned = 0
    /\ wg = 0
    /\ w = [i \in 0..(MaxThreads - 1) |-> idleWorker]
    /\ outputFileName = <<>>
    /\ errChan = <<>>
    /\ closed = FALSE
    /\ outputFiles = <<>>
    /\ fs = [n \in {} |-> <<>>]
    /\ filesWithIndex = <<>>
    /\ ck = 0
    /\ concatErr = "none"
    /\ outcome = Ended("running", "nil")

SpecCli == InitCli /\ [][Next]_vars

\* ------------------------------------------- compressFile (chunk dispatch)
\* the variables of the block-mode pipeline
blockVars == <<X, flags, src, numThreads, shortReads, changed, faults, pc, offset, spawned,
               wg, w, outputFileName, errChan, closed, outputFiles, fs, filesWithIndex,
               ck, concatErr, outcome>>

\* the block-mode pipeline is not running
blockOff ==
    /\ X = <<>> /\ flags = validFlags /\ src = <<>> /\ numThreads = 1
    /\ shortReads = FALSE /\ changed = FALSE /\ faults = 0 /\ pc = "off"
    /\ offset = <<>> /\ spawned = 0 /\ wg = 0
    /\ w = [i \in 0..(MaxThreads - 1) |-> idleWorker]
    /\ outputFileName = <<>> /\ errChan = <<>> /\ closed = FALSE
    /\ outputFiles = <<>> /\ fs = [n \in {} |-> <<>>] /\ filesWithIndex = <<>>
    /\ ck = 0 /\ concatErr = "none" /\ outcome = Ended("running", "nil")

\* const blockSize = 1 << 20, scaled like oneMB
blockSize == Granularity

\* compressBlock: one encoder per block, Write and Close: one frame per block
compressBlock(input) == EncodeAll(input)

\* the k-th chunk (from 1) the reader goroutine reads from the input
Chunk(input, k) == SubSeq(input, (k - 1) * blockSize + 1, Min(k * blockSize, Len(input)))

cfIdleWorker == [pc |-> "idle", n |-> 0, idx |-> 0, sent |-> <<>>, view |-> <<>>, data |-> <<>>]
cfNoResult == [idx |-> 0, data |-> <<>>, err |-> "nil"]

\* compressFile was called with an input of 0..MaxFileSize bytes and 1..MaxCfThreads
InitCf ==
    /\ cf \in [pc : {"start"}, input : FileContents, rpos : {0}, numThreads : 1..MaxCfThreads,
               buf : {[b \in 1..blockSize |-> 0]},
               reader : {[pc |-> "idle", n |-> 0, index |-> 0]},
               inputClosed : {FALSE},
               wk : {[i \in 0..(MaxCfThreads - 1) |-> cfIdleWorker]},
               wg : {0}, resultsClosed : {FALSE},
               collector : {[pc |-> "idle", res |-> cfNoResult]},
               ret : {"none"}, out : {<<>>}, faults : {0}]
    /\ mem = memOff
    /\ blockOff

CfWorkers == IF cf.pc = "off" THEN {} ELSE 0..(cf.numThreads - 1)
CfRunning == cf.pc = "run"

\* the worker loop, the reader goroutine and the closer goroutine are launched,
\* compressFile starts to range over results
CfLaunch ==
    /\ cf.pc = "start"
    /\ cf' = [cf EXCEPT !.pc = "run",
                        !.wg = cf.numThreads,
                        !.wk = [i \in DOMAIN cf.wk |->
                                   IF i \in CfWorkers THEN [cf.wk[i] EXCEPT !.pc = "recv"]
                                   ELSE cf.wk[i]],
                        !.reader.pc = "read",
                        !.collector.pc = "recv"]
    /\ UNCHANGED <<mem, blockVars>>

\* what a worker that holds buf[:n] may find there: for every byte, each value
\* written to that place of buf since the chunk was handed over
viewAfterRead(view, newBuf, n) ==
    [b \in 1..Len(view) |-> IF b <= n THEN view[b] \cup {newBuf[b]} ELSE view[b]]

\* n, err := input.Read(buf) of the reader goroutine, into the one buffer it
\* allocated before the loop; n == 0 ends the loop and closes inputChunks; an
\* error makes the reader send a result with that error
CfRead ==
    /\ CfRunning
    /\ cf.reader.pc = "read"
    /\ LET n == Min(blockSize, Len(cf.input) - cf.rpos)
           newBuf == [b \in 1..blockSize |->
                         IF b <= n THEN cf.input[cf.rpos + b] ELSE cf.buf[b]]
       IN \/ /\ n = 0
             /\ cf' = [cf EXCEPT !.reader.pc = "done", !.inputClosed = TRUE]
          \/ /\ n > 0
             /\ cf' = [cf EXCEPT !.buf = newBuf,
                                 !.rpos = @ + n,
                                 !.reader.pc = "send",
                                 !.reader.n = n,
                                 !.wk = [i \in DOMAIN cf.wk |->
                                            IF cf.wk[i].pc = "compress"
                                            THEN [cf.wk[i] EXCEPT
                                                     !.view = viewAfterRead(@, newBuf, n)]
                                            ELSE cf.wk[i]]]
          \/ /\ cf.faults < MaxFaults
             /\ cf' = [cf EXCEPT !.faults = @ + 1, !.reader.pc = "senderr"]
    /\ UNCHANGED <<mem, blockVars>>

\* inputChunks <- buf[:n] meets a worker's receive: the worker gets a slice of
\* the reader's buffer, not a copy
CfHand(i) ==
    /\ CfRunning
    /\ cf.reader.pc = "send"
    /\ cf.wk[i].pc = "recv"
    /\ cf' = [cf EXCEPT !.reader.pc = "read",
                        !.reader.index = @ + 1,
                        !.wk[i] = [pc |-> "compress", n |-> cf.reader.n,
                                   idx |-> cf.reader.index + 1,
                                   sent |-> SubSeq(cf.buf, 1, cf.reader.n),
                                   view |-> [b \in 1..cf.reader.n |-> {cf.buf[b]}],
                                   data |-> <<>>]]
    /\ UNCHANGED <<mem, blockVars>>

\* compressBlock(chunk, compressionLevel) on the bytes the worker finds in its slice
CfCompress(i) ==
    /\ CfRunning
    /\ cf.wk[i].pc = "compress"
    /\ \E bytes \in [1..cf.wk[i].n -> UNION {cf.wk[i].view[b] : b \in 1..cf.wk[i].n}] :
          /\ \A b \in 1..cf.wk[i].n : bytes[b] \in cf.wk[i].view[b]
          /\ cf' = [cf EXCEPT !.wk[i].pc = "send", !.wk[i].data = compressBlock(bytes)]
    /\ UNCHANGED <<mem, blockVars>>

\* results <- result{...} of a worker meets the receive of compressFile's range
CfDeliver(i) ==
    /\ CfRunning
    /\ cf.wk[i].pc = "send"
    /\ cf.collector.pc = "recv"
    /\ ~cf.resultsClosed
    /\ cf' = [cf EXCEPT !.wk[i].pc = "recv",
                        !.collector = [pc |-> "write",
                                       res |-> [idx |-> cf.wk[i].idx, data |-> cf.wk[i].data,
                                                err |-> "nil"]]]
    /\ UNCHANGED <<mem, blockVars>>

\* results <- result{index, err} of the reader meets the receive; the reader
\* returns and its deferred close(inputChunks) runs
CfReadErrSend ==
    /\ CfRunning
    /\ cf.reader.pc = "senderr"
    /\ cf.collector.pc = "recv"
    /\ ~cf.resultsClosed
    /\ cf' = [cf EXCEPT !.reader.pc = "done",
                        !.inputClosed = TRUE,
                        !.collector = [pc |-> "write",
                                       res |-> [idx |-> cf.reader.index, data |-> <<>>,
                                                err |-> "failed to read input file"]]]
    /\ UNCHANGED <<mem, blockVars>>

\* for chunk := range inputChunks ends: the channel is closed; wg.Done
CfWorkerExit(i) ==
    /\ CfRunning
    /\ cf.wk[i].pc = "recv"
    /\ cf.inputClosed
    /\ cf' = [cf EXCEPT !.wk[i].pc = "done", !.wg = @ - 1]
    /\ UNCHANGED <<mem, blockVars>>

\* go func() { wg.Wait(); close(results) }()
CfCloser ==
    /\ CfRunning
    /\ ~cf.resultsClosed
    /\ cf.wg = 0
    /\ cf' = [cf EXCEPT !.resultsClosed = TRUE]
    /\ UNCHANGED <<mem, blockVars>>

\* the body of for res := range results: return res.err, or output.Write(res.data)
CfWrite ==
    /\ CfRunning
    /\ cf.collector.pc = "write"
    /\ IF cf.collector.res.err # "nil"
       THEN cf' = [cf EXCEPT !.collector.pc = "returned", !.ret = cf.collector.res.err]
       ELSE \/ cf' = [cf EXCEPT !.collector.pc = "recv",
                                !.out = Append(@, [idx |-> cf.collector.res.idx,
                                                   data |-> cf.collector.res.data])]
            \/ /\ cf.faults < MaxFaults
               /\ cf' = [cf EXCEPT !.faults = @ + 1,
                                   !.collector.pc = "returned",
                                   !.ret = "failed to write compressed data"]
    /\ UNCHANGED <<mem, blockVars>>

\* results is closed and drained: return nil
CfReturn ==
    /\ CfRunning
    /\ cf.collector.pc = "recv"
    /\ cf.resultsClosed
    /\ cf' = [cf EXCEPT !.collector.pc = "returned", !.ret = "nil"]
    /\ UNCHANGED <<mem, blockVars>>

NextCf ==
    \/ CfLaunch
    \/ CfRead
    \/ \E i \in CfWorkers : CfHand(i)
    \/ \E i \in CfWorkers : CfCompress(i)
    \/ \E i \in CfWorkers : CfDeliver(i)
    \/ CfReadErrSend
    \/ \E i \in CfWorkers : CfWorkerExit(i)
    \/ CfCloser
    \/ CfWrite
    \/ CfReturn

SpecCf == InitCf /\ [][NextCf]_vars

\* ------------------------------------ compressFileBlock (in-memory variant)
memIdleWorker == [outer |-> "idle", inner |-> "none", pos |-> 0, end |-> 0, pipe |-> "none",
                  pending |-> <<>>, chunkData |-> <<>>, err |-> "nil"]

\* compressFileBlock was called with a file of 0..MaxFileSize bytes and
\* 1..MaxMemThreads threads
InitMem ==
    /\ mem \in [pc : {"start"}, input : FileContents, numThreads : 1..MaxMemThreads,
                faults : {0}, wg : {0}, errChan : {<<>>}, closed : {FALSE},
                sendPanic : {FALSE},
                wk : {[i \in 0..(MaxMemThreads - 1) |-> memIdleWorker]},
                compressedData : {[i \in 0..(MaxMemThreads - 1) |-> <<>>]},
                collector : {"idle"}, ret : {"none"}, output : {<<>>}]
    /\ cf = cfOff
    /\ blockOff

MemWorkers == IF mem.pc = "off" THEN {} ELSE 0..(mem.numThreads - 1)
MemRunning == mem.pc = "run"

\* partSize := fileSize / int64(numThreads); start, end of goroutine i, the last
\* one gets the remainder
partSize == Len(mem.input) \div mem.numThreads
partStart(i) == i * partSize
partEnd(i) == IF i = mem.numThreads - 1 THEN Len(mem.input) ELSE partStart(i) + partSize

\* input.Stat, the dispatch loop, the closer goroutine, then range errChan
MemLaunch ==
    /\ mem.pc = "start"
    /\ \/ mem' = [mem EXCEPT !.pc = "run",
                             !.wg = mem.numThreads,
                             !.wk = [i \in DOMAIN mem.wk |->
                                        IF i \in MemWorkers
                                        THEN [mem.wk[i] EXCEPT !.outer = "open"]
                                        ELSE mem.wk[i]],
                             !.collector = "range"]
       \/ /\ mem.faults < MaxFaults
          /\ mem' = [mem EXCEPT !.pc = "done", !.faults = @ + 1,
                                !.collector = "returned",
                                !.ret = "failed to stat input file"]
    /\ UNCHANGED <<cf, blockVars>>

\* a send on errChan (buffered numThreads): a panic when the channel is closed
memSend(err) ==
    IF mem.closed THEN [mem EXCEPT !.sendPanic = TRUE]
    ELSE [mem EXCEPT !.errChan = Append(@, err)]
memCanSend == mem.closed \/ Len(mem.errChan) < mem.numThreads

\* os.Open(input.Name()), Seek(start, 0), io.Pipe(), go func() {...}(); a
\* failure is sent on errChan and the goroutine returns
MemOpen(i) ==
    /\ MemRunning
    /\ mem.wk[i].outer = "open"
    /\ \/ mem' = [mem EXCEPT !.wk[i].outer = "read", !.wk[i].inner = "read",
                             !.wk[i].pos = partStart(i), !.wk[i].end = partEnd(i),
                             !.wk[i].pipe = "open"]
       \/ /\ mem.faults < MaxFaults
          /\ mem' = [mem EXCEPT !.faults = @ + 1, !.wk[i].outer = "senderr",
                                !.wk[i].err = "failed to open input file"]
    /\ UNCHANGED <<cf, blockVars>>

\* errChan <- fmt.Errorf(...); return of the outer goroutine, then wg.Done
MemOuterSend(i) ==
    /\ MemRunning
    /\ mem.wk[i].outer = "senderr"
    /\ memCanSend
    /\ mem' = [memSend(mem.wk[i].err) EXCEPT !.wk[i].outer = "done", !.wg = @ - 1]
    /\ UNCHANGED <<cf, blockVars>>

\* one iteration of compressSegment in the inner goroutine: Read from the
\* LimitReader, EncodeAll, then pw.Write, which waits for the outer pr.Read
MemInnerRead(i) ==
    /\ MemRunning
    /\ mem.wk[i].inner = "read"
    /\ LET r == mem.wk[i]
           n == Min(oneMB, Min(r.end, Len(mem.input)) - r.pos)
       IN \/ /\ n <= 0
             /\ mem' = [mem EXCEPT !.wk[i].inner = "close"]
          \/ /\ n > 0
             /\ mem' = [mem EXCEPT !.wk[i].inner = "write",
                                   !.wk[i].pos = @ + n,
                                   !.wk[i].pending =
                                       EncodeAll(SubSeq(mem.input, r.pos + 1, r.pos + n))]
          \/ /\ mem.faults < MaxFaults
             /\ mem' = [mem EXCEPT !.faults = @ + 1, !.wk[i].inner = "senderr",
                                   !.wk[i].err = "failed to read input"]
    /\ UNCHANGED <<cf, blockVars>>

\* pw.Write(compressed) meets pr.Read(data): chunkData = append(chunkData, data[:n]...)
MemPipeRead(i) ==
    /\ MemRunning
    /\ mem.wk[i].outer = "read"
    /\ mem.wk[i].inner = "write"
    /\ mem' = [mem EXCEPT !.wk[i].chunkData = @ \o mem.wk[i].pending,
                          !.wk[i].pending = <<>>,
                          !.wk[i].inner = "read"]
    /\ UNCHANGED <<cf, blockVars>>

\* if err != nil { errChan <- err } of the inner goroutine, which no WaitGroup counts
MemInnerSend(i) ==
    /\ MemRunning
    /\ mem.wk[i].inner = "senderr"
    /\ memCanSend
    /\ mem' = [memSend(mem.wk[i].err) EXCEPT !.wk[i].inner = "close"]
    /\ UNCHANGED <<cf, blockVars>>

\* the deferred pw.Close() of the inner goroutine
MemInnerClose(i) ==
    /\ MemRunning
    /\ mem.wk[i].inner = "close"
    /\ mem' = [mem EXCEPT !.wk[i].inner = "done", !.wk[i].pipe = "closed"]
    /\ UNCHANGED <<cf, blockVars>>

\* pr.Read returns 0, io.EOF: only after the write side was closed
outerBreakAnyTime(i) == TRUE
outerBreak(i) == mem.wk[i].pipe = "closed"

\* the outer loop ends: compressedData[i] = chunkData, then wg.Done
MemOuterDone(i) ==
    /\ MemRunning
    /\ mem.wk[i].outer = "read"
    /\ outerBreak(i)
    /\ mem' = [mem EXCEPT !.wk[i].outer = "done",
                          !.compressedData[i] = mem.wk[i].chunkData,
                          !.wg = @ - 1]
    /\ UNCHANGED <<cf, blockVars>>

\* go func() { wg.Wait(); close(errChan) }()
MemCloser ==
    /\ MemRunning
    /\ ~mem.closed
    /\ mem.wg = 0
    /\ mem' = [mem EXCEPT !.closed = TRUE]
    /\ UNCHANGED <<cf, blockVars>>

\* for err := range errChan { if err != nil { return err } }
MemCollect ==
    /\ MemRunning
    /\ mem.collector = "range"
    /\ IF mem.errChan # <<>>
       THEN mem' = [mem EXCEPT !.errChan = Tail(@), !.collector = "returned",
                               !.ret = Head(mem.errChan)]
       ELSE /\ mem.closed
            /\ mem' = [mem EXCEPT !.collector = "write"]
    /\ UNCHANGED <<cf, blockVars>>

RECURSIVE memChunks(_)
memChunks(k) == IF k = 0 THEN <<>> ELSE memChunks(k - 1) \o mem.compressedData[k - 1]

\* for _, chunk := range compressedData { output.Write(chunk) }; return nil
MemWriteAll ==
    /\ MemRunning
    /\ mem.collector = "write"
    /\ \/ mem' = [mem EXCEPT !.collector = "returned", !.ret = "nil",
                             !.output = memChunks(mem.numThreads)]
       \/ /\ mem.faults < MaxFaults
          /\ mem' = [mem EXCEPT !.faults = @ + 1, !.collector = "returned",
                                !.ret = "failed to write compressed data"]
    /\ UNCHANGED <<cf, blockVars>>

NextMem ==
    \/ MemLaunch
    \/ \E i \in MemWorkers : MemOpen(i)
    \/ \E i \in MemWorkers : MemOuterSend(i)
    \/ \E i \in MemWorkers : MemInnerRead(i)
    \/ \E i \in MemWorkers : MemPipeRead(i)
    \/ \E i \in MemWorkers : MemInnerSend(i)
    \/ \E i \in MemWorkers : MemInnerClose(i)
    \/ \E i \in MemWorkers : MemOuterDone(i)
    \/ MemCloser
    \/ MemCollect
    \/ MemWriteAll

\* the two variants of compressFileBlock: a run is a run of one of them
InitVariants == Init \/ InitMem
NextVariants == Next \/ NextMem
SpecVariants == InitVariants /\ [][NextVariants]_vars

\* ------------------------------------------------------------------ claims
\* the payloads the workers 0..k-1 wrote, in index order
RECURSIVE payloads(_)
payloads(k) == IF k = 0 THEN <<>> ELSE payloads(k - 1) \o w[k - 1].out

\* compressPart returned an error for segment i
WorkerFailed(i) == w[i].err # "nil"
\* no worker hit the over-read panic of compressPart
NoOverRead == \A i \in Workers : w[i].pc # "panicked"
ConcatFailed == concatErr \notin {"nil", "none"}

\* C1: round trip. When the source was not changed during the run and
\* concatenateFiles completed, decoding the destination as one continuous
\* multi-frame stream yields exactly the source content X, for every content
\* (the empty one included) and every thread count (also above the unit count).
C1_RoundTrip ==
    (pc = "done" /\ outcome.kind = "returned" /\ concatErr = "nil" /\ ~changed)
        => /\ outputFile \in DOMAIN fs
           /\ decompressFile(fs[outputFile]) = [ok |-> TRUE, data |-> X]

\* a finished run of 3 workers over 2 units: the third segment is empty
C1_Witness ==
    /\ pc = "done" /\ outcome.kind = "returned" /\ concatErr = "nil" /\ ~changed
    /\ numThreads = 3 /\ Len(X) = 3 /\ offset[3] = <<3, 3>>
    /\ decompressFile(fs[outputFile]).data = X

\* C2: partition. The planned segments start at 0, each ends where the next
\* starts, no segment ends before it starts, and the last one ends at fileSize.
C2_Partition ==
    pc = "dispatch"
        => /\ Len(offset) >= 1
           /\ offset[1][1] = 0
           /\ \A k \in 1..(Len(offset) - 1) : offset[k][2] = offset[k + 1][1]
           /\ \A k \in 1..Len(offset) : offset[k][1] <= offset[k][2]
           /\ offset[Len(offset)][2] = Len(src)

\* a plan whose first worker gets the extra unit and whose last segment is clamped
C2_Witness ==
    /\ pc = "dispatch" /\ numThreads = 3 /\ Len(src) = 3 * oneMB + 1
    /\ offset = <<<<0, 2 * oneMB>>, <<2 * oneMB, 3 * oneMB>>, <<3 * oneMB, 3 * oneMB + 1>>>>

\* C3: order independence. Once concatenateFiles completed, the destination is
\* the concatenation of the workers' payloads in ascending segment index,
\* whatever order the names arrived in on the channel.
C3_OrderIndependent ==
    concatErr = "nil"
        => /\ outputFile \in DOMAIN fs
           /\ fs[outputFile] = payloads(numThreads)

\* the names arrived in the order 2, 0, 1 and every payload is non-empty
C3_Witness ==
    /\ concatErr = "nil" /\ numThreads = 3
    /\ outputFiles = <<SegmentName(2), SegmentName(0), SegmentName(1)>>
    /\ \A i \in Workers : w[i].out # <<>>
    /\ fs[outputFile] = w[0].out \o w[1].out \o w[2].out

\* C4: a worker never reads or encodes a byte at or beyond its segment's end,
\* whatever length the read call returns.
C4_NeverReadsPastEnd ==
    \A i \in Workers :
        w[i].pc \in {"loop", "send", "done", "panicked"} => w[i].pos <= offset[i + 1][2]

\* C5: a worker that got a zero-byte read below its segment's end fails; a worker
\* never finishes successfully having covered less than its segment.
C5_ShortReadIsFatal ==
    \A i \in Workers :
        (w[i].pc \in {"send", "done"} /\ w[i].err = "nil")
            => w[i].pos = offset[i + 1][2]

\* C6: exactly-once dispatch and collection. The planner returns numThreads
\* segments, every index is handed to one goroutine once, and on the success path
\* concatenateFiles receives exactly one segment file per index.
C6_ExactlyOnce ==
    /\ pc \in {"dispatch", "collect", "errcheck", "concat"} => Len(offset) = numThreads
    /\ \A i \in DOMAIN w : w[i].runs <= 1 /\ (w[i].runs = 1 => i \in Workers)
    /\ pc \in {"collect", "errcheck", "concat", "create", "copy", "return"}
          => \A i \in Workers : w[i].runs = 1
    /\ pc \in {"concat", "create", "copy"}
          => /\ Len(outputFiles) = numThreads
             /\ \A i \in Workers :
                   Cardinality({k \in 1..Len(outputFiles) : ParseIndex(outputFiles[k]) = i}) = 1

\* reassembly starts with three names that arrived out of order
C6_Witness ==
    /\ pc = "concat" /\ numThreads = 3
    /\ outputFiles = <<SegmentName(1), SegmentName(2), SegmentName(0)>>

\* C7: cleanup on failure. When the run has ended and a worker returned an error,
\* no segment file is left on disk.
C7_CleanupOnFailure ==
    (pc = "done" /\ NoOverRead /\ \E i \in Workers : WorkerFailed(i))
        => \A i \in DOMAIN w : SegmentName(i) \notin DOMAIN fs

\* C8: no partial output. When the run ended after a worker failure or a failed
\* concatenation, the destination does not exist or holds the complete stream.
C8_NoPartialOutput ==
    (pc = "done" /\ NoOverRead /\ (ConcatFailed \/ \E i \in Workers : WorkerFailed(i)))
        => \/ outputFile \notin DOMAIN fs
           \/ decompressFile(fs[outputFile]) = [ok |-> TRUE, data |-> X]

\* C9: when a worker failed, compressFileBlock returns a failure value that
\* carries the index of the failed segment and its error.
C9_FailureCarriesIndex ==
    (pc = "done" /\ NoOverRead /\ \E i \in Workers : WorkerFailed(i))
        => /\ outcome.kind = "returned"
           /\ outcome.index \in Workers
           /\ WorkerFailed(outcome.index)
           /\ outcome.err = w[outcome.index].err

\* C10: a failed concatenation is never reported as success by compressFileBlock.
C10_ConcatFailurePropagates ==
    (pc = "done" /\ ConcatFailed)
        => ~(outcome.kind = "returned" /\ outcome.err = "nil")

\* some segment file of the run is on disk
SegmentFiles == {SegmentName(i) : i \in DOMAIN w} \cap DOMAIN fs
\* the run ended with concatenateFiles and compressFileBlock both returning nil
Succeeded == pc = "done" /\ outcome.kind = "returned" /\ outcome.err = "nil" /\ concatErr = "nil"

AllWorkersDone == wg = 0 /\ \A i \in Workers : w[i].pc = "done"

\* C12: join barrier. compressFileBlock is past its collection loop (testing
\* errChan, inside concatenateFiles, or ended by the panic of the error loop)
\* only when every dispatched worker has finished; in particular no segment
\* file is opened for copying while a worker is still running.
C12_JoinBarrier ==
    /\ pc \in {"errcheck", "concat", "create", "copy", "return"} => AllWorkersDone
    /\ outcome.err = "[ERROR] some errors see above" => AllWorkersDone
    /\ (ck >= 1 \/ concatErr # "none") => AllWorkersDone

\* the copy loop stands at the second of three segment files
C12_Witness ==
    /\ pc = "copy" /\ ck = 2 /\ numThreads = 3
    /\ AllWorkersDone

\* worker i stands inside compressPart or before its sends
WorkerActive(i) == w[i].pc \in {"start", "loop", "send"}

\* an upper bound on the steps the program can still take: the distance of
\* main and of every goroutine from its end, the names still in the channel,
\* the files still to copy, and the disturbances still possible
pcLeft ==
    CASE pc = "main" -> 9 [] pc = "plan" -> 8 [] pc = "dispatch" -> 7
      [] pc = "collect" -> 6 [] pc = "errcheck" -> 5 [] pc = "concat" -> 4
      [] pc = "create" -> 3 [] pc = "copy" -> 2 [] pc = "return" -> 1
      [] OTHER -> 0
workerLeft(i) ==
    CASE w[i].pc = "idle" -> Len(X) + 5
      [] w[i].pc = "start" -> Len(X) + 4
      [] w[i].pc = "loop" -> Len(X) - w[i].pos + 3
      [] w[i].pc = "send" -> 2
      [] OTHER -> 0
RECURSIVE workersLeft(_)
workersLeft(k) == IF k = 0 THEN 0 ELSE workersLeft(k - 1) + workerLeft(k - 1)
StepsLeft ==
    pcLeft + workersLeft(MaxThreads) + Len(outputFileName) + (MaxThreads + 1 - ck)
        + (IF closed THEN 0 ELSE 1) + (MaxFaults - faults)

\* main, the collector or the closer goroutine can take a step (ConcatParse has
\* no condition besides its place in the program)
MainCanStep ==
    \/ ENABLED (MainSetup \/ calculateSegment \/ Spawn \/ StartCollect \/ Closer
                   \/ CollectRecv \/ CollectEnd \/ ErrCheck \/ ConcatCreate
                   \/ ConcatCopy \/ ConcatRemove \/ Return)
    \/ (Running /\ pc = "concat")

\* C13: worker independence and termination. While the process runs, every
\* worker that has not finished can take its next step whatever the other
\* workers and the collector do (its sends find room in the channels); before
\* the program has ended some goroutine can always take a step, and every step
\* brings the program closer to its end, so every run reaches a terminal outcome.
C13_NoBlockingAndTermination ==
    /\ [](\A i \in Workers :
            Running => /\ w[i].pc = "start" => ENABLED WorkerStart(i)
                       /\ w[i].pc = "loop" => ENABLED WorkerRead(i)
                       /\ w[i].pc = "send" => ENABLED WorkerSend(i))
    /\ []((pc = "done" /\ ~Running)
            \/ (pc # "done" /\ Running
                  /\ ((\E i \in Workers : WorkerActive(i)) \/ MainCanStep)))
    /\ [](StepsLeft >= 0)
    /\ [][StepsLeft' < StepsLeft]_vars

\* three workers stand before their sends while nothing was collected yet, one
\* of them with an error for errChan
C13_Witness ==
    /\ numThreads = 3 /\ Running
    /\ \A i \in Workers : w[i].pc = "send"
    /\ \E i \in Workers : WorkerFailed(i)
    /\ outputFiles = <<>>

\* the granularity units segment k of the plan covers, a partial unit counted as one
unitsOf(k) == (offset[k][2] - offset[k][1] + oneMB - 1) \div oneMB

\* C14: balanced shares. With U the file size in units, rounded up, the first
\* U mod threadCount segments cover floor(U / threadCount) + 1 units and the
\* others floor(U / threadCount), so two segments differ by at most one unit.
C14_BalancedShares ==
    pc = "dispatch"
        => LET U == (Len(src) + oneMB - 1) \div oneMB
               R == U % numThreads
           IN /\ Len(offset) = numThreads
              /\ \A k \in 1..Len(offset) :
                    unitsOf(k) = IF k <= R THEN (U \div numThreads) + 1
                                 ELSE U \div numThreads
              /\ \A j, k \in 1..Len(offset) : unitsOf(j) - unitsOf(k) <= 1

\* five units, the last one partial, over three workers: 2, 2 and 1 units
C14_Witness ==
    /\ pc = "dispatch" /\ numThreads = 3 /\ Len(src) = 4 * oneMB + 1
    /\ unitsOf(1) = 2 /\ unitsOf(2) = 2 /\ unitsOf(3) = 1

\* the end of segment k lies on a unit boundary
Aligned(k) == offset[k][2] % oneMB = 0

\* C15 as stated: alignment. The end of every segment except possibly the last
\* two is a multiple of the granularity.
C15_AlignedButLastTwo ==
    pc = "dispatch" => \A k \in 1..(Len(offset) - 2) : Aligned(k)

\* C15, amended: the end of every segment is a multiple of the granularity or
\* is the file size; the segments without a unit all end at the file size.
C15_AlignedOrFileSize ==
    pc = "dispatch" => \A k \in 1..Len(offset) : Aligned(k) \/ offset[k][2] = Len(src)

\* two units, the second partial, over four workers: the second segment ends
\* at the unaligned file size and two empty segments follow it
C15_Witness ==
    /\ pc = "dispatch" /\ numThreads = 4 /\ Len(src) = oneMB + 1
    /\ ~Aligned(2) /\ offset[2][2] = Len(src)
    /\ offset[3] = <<Len(src), Len(src)>> /\ offset[4] = <<Len(src), Len(src)>>

\* no goroutine was dispatched and no segment file was created
NothingDispatched == spawned = 0 /\ wg = 0 /\ SegmentFiles = {} /\ \A i \in DOMAIN w : w[i].runs = 0

\* C16: with numThreads < 1 (and the files named on the command line opened),
\* compressFileBlock ends by returning an error from planning, no worker was
\* dispatched and no segment file was created.
C16_FailsInPlanning ==
    (pc = "done" /\ numThreads < 1 /\ flags.NArg > 0 /\ flags.o /\ outcome.kind # "exit")
        => /\ outcome.kind = "returned" /\ outcome.err # "nil"
           /\ NothingDispatched

\* C17: block mode without an input argument or without -o is rejected by the
\* panic of the block-mode test, and at that time this run has created or
\* truncated no file.
C17_RejectedBeforeWork ==
    (pc = "done" /\ (flags.NArg = 0 \/ ~flags.o) /\ outcome.kind # "exit")
        => /\ outcome = Ended("panic", "Block mode does not support non seekable stream")
           /\ DOMAIN fs = {}

\* the bytes worker i has encoded so far
bytesRead(i) == decompressFile(w[i].out).data

\* C18: independent read cursors. A worker's read position is moved only by
\* that worker's own Seek and Read, and what a worker has read is always the
\* stretch of the source from its segment's start to its own position,
\* whatever the other workers did in between.
C18_IndependentCursors ==
    /\ [](\A i \in Workers :
            w[i].pc \in {"loop", "send", "done", "panicked"}
                => bytesRead(i) = SubSeq(src, offset[i + 1][1] + 1, w[i].pos))
    /\ [][\A i \in Workers :
            w'[i].pos # w[i].pos => (WorkerStart(i) \/ WorkerRead(i))]_vars

\* two workers stand in their loops, each past the first read of its segment
C18_Witness ==
    /\ numThreads >= 2 /\ Running
    /\ w[0].pc = "loop" /\ w[0].pos > offset[1][1]
    /\ w[1].pc = "loop" /\ w[1].pos > offset[2][1]
    /\ bytesRead(1) = SubSeq(src, offset[2][1] + 1, w[1].pos)

\* the -l value lies outside the range the program documents
LevelOutOfRange == flags.l < MinLevel \/ flags.l > MaxLevel

\* C19: with a compression level outside the supported range (and an otherwise
\* valid, undisturbed call) the run ends in a failure and has opened or created
\* no file.
C19_LevelRejected ==
    (pc = "done" /\ LevelOutOfRange /\ flags.NArg > 0 /\ flags.o /\ numThreads >= 1
         /\ faults = 0)
        => /\ ~Succeeded
           /\ DOMAIN fs = {}

\* C20: on an unchanged file and with reads that return a full buffer or the
\* rest of the file, no worker reaches the over-read panic, and a worker whose
\* loop has stopped stands exactly at its segment's end, having read exactly
\* end - start bytes.
C20_StopsExactlyAtEnd ==
    (~shortReads /\ ~changed)
        => \A i \in Workers :
              /\ w[i].pc # "panicked"
              /\ (w[i].pc \in {"send", "done"} /\ ~WorkerFailed(i))
                    => /\ w[i].pos = offset[i + 1][2]
                       /\ Len(bytesRead(i)) = offset[i + 1][2] - offset[i + 1][1]

\* the first of two workers has read its two full units and stopped at its end,
\* the second stopped at the end of the file after a partial unit
C20_Witness ==
    /\ ~shortReads /\ ~changed /\ numThreads = 2 /\ Len(X) = 2 * oneMB + 1
    /\ w[0].pc = "done" /\ ~WorkerFailed(0) /\ w[0].pos = 2 * oneMB
    /\ w[1].pc = "done" /\ ~WorkerFailed(1) /\ w[1].pos = Len(X)
    /\ Len(bytesRead(0)) = 2 * oneMB /\ Len(bytesRead(1)) = 1

\* the number of granularity units of the source as the planner measured it
unitCount == (Len(src) + oneMB - 1) \div oneMB
\* segment i (from 0) lies beyond the last unit
Surplus(i) == i >= unitCount

\* C21: zero-length segments. On a source that was not changed, every segment
\* beyond the last unit is empty with start = end = fileSize; its worker never
\* calls the encoder (its payload stays empty, its position stays at fileSize)
\* and, unless an I/O call failed, it returns its file name and no error.
C21_SurplusSegmentsEmpty ==
    (~changed /\ pc \notin {"main", "plan"} /\ Len(offset) = numThreads)
        => \A i \in Workers :
              Surplus(i)
                 => /\ offset[i + 1] = <<Len(src), Len(src)>>
                    /\ w[i].out = <<>>
                    /\ w[i].pc \in {"loop", "send", "done"} /\ ~WorkerFailed(i)
                          => /\ w[i].pos = Len(src)
                             /\ w[i].file = SegmentName(i)
                             /\ SegmentName(i) \in DOMAIN fs => fs[SegmentName(i)] = <<>>
                    /\ w[i].pc # "panicked"

\* three workers over one unit: the two surplus workers are done with empty
\* payloads, the first one wrote a frame
C21_Witness ==
    /\ ~changed /\ numThreads = 3 /\ Len(src) = 1
    /\ offset = <<<<0, 1>>, <<1, 1>>, <<1, 1>>>>
    /\ \A i \in Workers : w[i].pc = "done" /\ ~WorkerFailed(i)
    /\ w[0].out # <<>> /\ w[1].out = <<>> /\ w[2].out = <<>>
    /\ Running

\* every block written so far is the compression of the chunk its worker received
AllBlocksIntact ==
    \A k \in 1..Len(cf.out) :
        cf.out[k].data = compressBlock(Chunk(cf.input, cf.out[k].idx))

\* C22: in compressFile the k-th block written to the output is the
\* compression of the k-th chunk read from the input (stated for runs in which
\* no worker compressed overwritten bytes).
C22_WrittenInInputOrder ==
    (CfRunning /\ AllBlocksIntact)
        => \A k \in 1..Len(cf.out) : cf.out[k].data = compressBlock(Chunk(cf.input, k))

\* C23: in compressFile, while a worker holds a chunk it has not yet compressed,
\* the bytes of that chunk in the buffer are the bytes that were handed over.
C23_ChunkNotOverwritten ==
    CfRunning
        => \A i \in CfWorkers :
              cf.wk[i].pc = "compress"
                 => SubSeq(cf.buf, 1, cf.wk[i].n) = cf.wk[i].sent

\* C24: no send on a closed channel, in both variants of compressFileBlock. In
\* the pipeline variant no worker panics on a send, and once the channels are
\* closed every worker is past its sends. In the in-memory variant no outer and
\* no inner goroutine panics on a send, and once errChan is closed every outer
\* goroutine has returned and every inner goroutine is past its send.
C24_NoSendOnClosedChannel ==
    /\ outcome.err # "send on closed channel"
    /\ closed => \A i \in Workers : w[i].pc = "done"
    /\ MemRunning
          => /\ ~mem.sendPanic
             /\ mem.closed
                   => \A i \in MemWorkers :
                         /\ mem.wk[i].outer = "done"
                         /\ mem.wk[i].inner \in {"none", "done"}

\* the in-memory variant: an inner goroutine has sent its read error, closed
\* its pipe and ended, its outer goroutine returned, and errChan was closed
\* with the error still in its buffer
C24_Witness ==
    /\ MemRunning /\ mem.closed /\ mem.numThreads = 2
    /\ mem.errChan = <<"failed to read input">>
    /\ \E i \in MemWorkers : mem.wk[i].err = "failed to read input" /\ mem.wk[i].inner = "done"
    /\ ~mem.sendPanic

\* C25: in compressFile, when the collector has returned and no goroutine can
\* take another step, the reader goroutine and every worker have terminated.
C25_AllGoroutinesTerminate ==
    (CfRunning /\ cf.collector.pc = "returned" /\ ~ENABLED NextCf)
        => /\ cf.reader.pc = "done"
           /\ \A i \in CfWorkers : cf.wk[i].pc = "done"

====
